---- MODULE Spec2Model ----
(***************************************************************************)
(* A model of the react-ledgex versioning engine: the Clock, the          *)
(* per-namespace commit log (Layer), CommitNode.valuesEqual and the       *)
(* Ledger orchestrator with its deferred notifications.                   *)
(***************************************************************************)
EXTENDS Integers, Sequences, FiniteSets, TLC

(***************************************************************************)
(* Bounds of the model.                                                    *)
(***************************************************************************)
\* the clock is not ticked beyond this time
MaxTime == 2
\* no call appends to a key that already holds MaxCommits commits
MaxCommits == 3
\* no API call starts while more than MaxPending - 3 microtasks are queued
MaxPending == 3

(***************************************************************************)
(* JavaScript values, tagged by their runtime type.                        *)
(***************************************************************************)
Undef == [tag |-> "undefined"]
Null == [tag |-> "null"]
Num(n) == [tag |-> "number", num |-> n]
Bool(b) == [tag |-> "boolean", bool |-> b]
Arr(s) == [tag |-> "array", items |-> s]
Obj(f) == [tag |-> "object", fields |-> f]

EmptyMap == [k \in {} |-> Undef]

Restrict(f, S) == [k \in S |-> f[k]]

(***************************************************************************)
(* CommitNode                                                              *)
(***************************************************************************)
CommitNode(time, value) == [t |-> time, v |-> value]

\* a == null
IsNullish(a) == a.tag \in {"undefined", "null"}

RECURSIVE valuesEqual(_, _)
valuesEqual(a, b) ==
    IF IsNullish(a) /\ IsNullish(b) THEN TRUE
    ELSE IF IsNullish(a) \/ IsNullish(b) THEN FALSE
    ELSE IF a.tag \in {"number", "boolean"} /\ a = b THEN TRUE
    ELSE IF a.tag = "array" /\ b.tag = "array"
    THEN IF Len(a.items) # Len(b.items) THEN FALSE
         ELSE \A i \in 1..Len(a.items) : valuesEqual(a.items[i], b.items[i])
    ELSE FALSE

(***************************************************************************)
(* Layer: a map from flattened key to its commits.                         *)
(***************************************************************************)
\* the loop of the binary search; low, high are the 0-based indexes of the
\* code and result is the 1-based position of the commit found (0: none)
RECURSIVE findLoop(_, _, _, _, _)
findLoop(commits, targetTime, low, high, result) ==
    IF low > high THEN result
    ELSE LET mid == (low + high) \div 2
         IN IF commits[mid + 1].t <= targetTime
            THEN findLoop(commits, targetTime, mid + 1, high, mid + 1)
            ELSE findLoop(commits, targetTime, low, mid - 1, result)

\* the search with < in the place of <=
findLatestBefore(commits, targetTime) ==
    findLoop(commits, targetTime - 1, 0, Len(commits) - 1, 0)

\* position (1-based) of the commit the search returns, 0 for undefined
findLatestCommit(commits, targetTime) ==
    findLoop(commits, targetTime, 0, Len(commits) - 1, 0)

\* this._findLatestCommit(commits, time)?.v
latestValue(commits, time) ==
    LET i == findLatestCommit(commits, time)
    IN IF i = 0 THEN Undef ELSE commits[i].v

\* the flattened leaves of an object: a map from dot-joined path to value
RECURSIVE flattenObject(_, _)
flattenObject(obj, prefix) ==
    LET pre == IF prefix # "" THEN prefix \o "." ELSE ""
        ks == DOMAIN obj.fields
        nested == {k \in ks : obj.fields[k].tag = "object"}
        sub == [k \in nested |-> flattenObject(obj.fields[k], pre \o k)]
        paths == {pre \o k : k \in ks \ nested}
                   \cup UNION {DOMAIN sub[k] : k \in nested}
    IN [path \in paths |->
          IF \E k \in ks \ nested : pre \o k = path
          THEN obj.fields[CHOOSE k \in ks \ nested : pre \o k = path]
          ELSE sub[CHOOSE k \in nested : path \in DOMAIN sub[k]][path]]

setSingleKey(history, key, value, time) ==
    LET commits == IF key \in DOMAIN history THEN history[key] ELSE <<>>
    IN [k \in DOMAIN history \cup {key} |->
          IF k = key THEN Append(commits, CommitNode(time, value))
          ELSE history[k]]

\* the loop of Layer.set over the flattened leaves: one commit per leaf
setEntries(history, flatUpdates, time) ==
    [k \in DOMAIN history \cup DOMAIN flatUpdates |->
        IF k \in DOMAIN flatUpdates
        THEN Append(IF k \in DOMAIN history THEN history[k] ELSE <<>>,
                    CommitNode(time, flatUpdates[k]))
        ELSE history[k]]

\* Layer.set with an object
layerSet(history, obj, time) ==
    setEntries(history, flattenObject(obj, ""), time)

\* the test of isUpdateMeaningful on the flattened leaves
someLeafDiffers(history, flat, time) ==
    \E key \in DOMAIN flat :
        ~valuesEqual(latestValue(IF key \in DOMAIN history
                                 THEN history[key] ELSE <<>>, time + 1),
                     flat[key])

isUpdateMeaningful(history, updates, time) ==
    someLeafDiffers(history, flattenObject(updates, ""), time)

\* what _trimHistory leaves of one key's commits (<<>>: the key is removed)
\* the commits _trimHistory keeps when lastValid is at position idx
trimAt(commits, idx, minTime, direction, keepLatest) ==
    IF idx # 0
    THEN IF direction = "after"
         THEN [i \in 1..(Len(commits) - idx + 1) |->
                 IF i = 1 THEN [commits[idx] EXCEPT !.t = minTime]
                 ELSE commits[idx + i - 1]]
         ELSE SubSeq(commits, 1, idx)
    ELSE IF keepLatest /\ Len(commits) > 0
    THEN <<commits[Len(commits)]>>
    ELSE <<>>

\* what _trimHistory leaves of one key's commits (<<>>: the key is removed)
trimCommits(commits, minTime, direction, keepLatest) ==
    trimAt(commits,
           findLatestCommit(commits, IF direction = "before"
                                     THEN minTime - 1 ELSE minTime),
           minTime, direction, keepLatest)

\* the keys _trimHistory keeps: new holds the trimmed commits of each key
keptKeys(history, new) ==
    Restrict(new, {k \in DOMAIN history :
                     Len(history[k]) = 0 \/ Len(new[k]) # 0})

trimHistory(history, minTime, direction, keepLatest) ==
    keptKeys(history,
             [k \in DOMAIN history |->
                IF Len(history[k]) = 0 THEN history[k]
                ELSE trimCommits(history[k], minTime, direction, keepLatest)])

layerPrune(history, forkTime) == trimHistory(history, forkTime, "before", FALSE)

layerFlush(history, thresholdTime) ==
    trimHistory(history, thresholdTime, "after", TRUE)

layerGet(history, key, time) ==
    IF key \notin DOMAIN history \/ Len(history[key]) = 0 THEN Undef
    ELSE latestValue(history[key], time)

\* the entries of a map whose value is not undefined
definedEntries(values) ==
    Restrict(values, {k \in DOMAIN values : values[k] # Undef})

getState(history, time) ==
    definedEntries([k \in DOMAIN history |-> latestValue(history[k], time)])

(***************************************************************************)
(* State of one Ledger, its microtask queue and the observers.             *)
(***************************************************************************)
VARIABLES
    p,               \* clock.p: current position in history
    t,               \* clock.t: maximum timestamp in history
    layers,          \* Ledger.layers: layerId -> Layer.history
    genesis,         \* Ledger.genesis.history
    bufferSize,      \* constructor option
    toleranceWindow, \* constructor option
    lastFlushTime,
    subscribers,     \* Ledger.subscribers
    microtasks,      \* number of queued _notify microtasks
    calls,           \* callback -> invocations since the last API call
    last,            \* the last API call: its name, argument and outcome
    preSnap,         \* get() just before the last API call
    snapAt,          \* time n -> get() right after the call that created n
    layer,           \* Layer.history of a Layer used on its own
    answer           \* what the last call of that Layer returned

core == <<p, t, layers, genesis, lastFlushTime>>
config == <<bufferSize, toleranceWindow>>
alone == <<layer, answer>>
vars == <<p, t, layers, genesis, bufferSize, toleranceWindow, lastFlushTime,
          subscribers, microtasks, calls, last, preSnap, snapAt, layer, answer>>

Namespaces == {"a", "b"}
Callbacks == {"cb1", "cb2"}

(***************************************************************************)
(* Clock                                                                   *)
(***************************************************************************)
\* tick: t = p when p < t, then p++ and t = p
clockTick(cp, ct) == [p |-> cp + 1, t |-> cp + 1]

\* undo without its test of the pointer
undoBelowZero(cp, ct) == [p |-> cp - 1, t |-> ct]

\* undo that also cuts the maximum down to the time it moves to
undoTruncating(cp, ct) ==
    IF cp > 0 THEN [p |-> cp - 1, t |-> cp - 1] ELSE [p |-> cp, t |-> ct]

clockUndo(cp, ct) == [p |-> IF cp > 0 THEN cp - 1 ELSE cp, t |-> ct]

\* redo without its test of the pointer
redoBeyondMax(cp, ct) == [p |-> cp + 1, t |-> ct]

clockRedo(cp, ct) == [p |-> IF cp < ct THEN cp + 1 ELSE cp, t |-> ct]

\* resetTo that also cuts the maximum down to the time it jumps to
resetToTruncating(cp, ct, time) ==
    IF time >= 0 /\ time <= ct THEN [p |-> time, t |-> time]
    ELSE [p |-> cp, t |-> ct]

clockResetTo(cp, ct, time) ==
    [p |-> IF time >= 0 /\ time <= ct THEN time ELSE cp, t |-> ct]

(***************************************************************************)
(* Ledger internals, as functions of the maps they work on.                *)
(***************************************************************************)
getLayer(L, G, layerId, timeIfNotSet) ==
    IF layerId \notin DOMAIN L
    THEN [layers |-> [id \in DOMAIN L \cup {layerId} |->
                        IF id = layerId THEN EmptyMap ELSE L[id]],
          genesis |-> setSingleKey(G, layerId, Bool(TRUE), timeIfNotSet)]
    ELSE [layers |-> L, genesis |-> G]

\* step 1 of Ledger.set: the loop that looks for a meaningful update
RECURSIVE checkLoop(_, _, _, _, _)
checkEntry(u, i, gl, peek) ==
    IF isUpdateMeaningful(gl.layers[u[i].layerId], u[i].updates, peek)
    THEN [layers |-> gl.layers, genesis |-> gl.genesis, meaningful |-> TRUE]
    ELSE checkLoop(u, i + 1, gl.layers, gl.genesis, peek)

checkLoop(u, i, L, G, peek) ==
    IF i > Len(u) THEN [layers |-> L, genesis |-> G, meaningful |-> FALSE]
    ELSE checkEntry(u, i, getLayer(L, G, u[i].layerId, peek + 1), peek)

\* step 3 of Ledger.set: the loop that appends the updates
RECURSIVE applyLoop(_, _, _, _, _)
applyEntry(u, i, gl, time) ==
    applyLoop(u, i + 1,
              [gl.layers EXCEPT
                 ![u[i].layerId] = layerSet(@, u[i].updates, time)],
              gl.genesis, time)

applyLoop(u, i, L, G, time) ==
    IF i > Len(u) THEN [layers |-> L, genesis |-> G]
    ELSE applyEntry(u, i, getLayer(L, G, u[i].layerId, time), time)

\* Ledger.prune without its notification; peek is the clock's pointer
\* the layers Ledger.prune keeps: those whose state is not empty
nonEmptyLayers(pruned, peek) ==
    Restrict(pruned,
             {id \in DOMAIN pruned : DOMAIN getState(pruned[id], peek) # {}})

ledgerPrune(L, G, minTime, peek) ==
    [layers |-> nonEmptyLayers([id \in DOMAIN L |-> layerPrune(L[id], minTime)],
                               peek),
     genesis |-> layerPrune(G, minTime)]

\* Ledger.flush without its notification and its lastFlushTime
ledgerFlush(L, G, minTime) ==
    [layers |-> [id \in DOMAIN L |-> layerFlush(L[id], minTime)],
     genesis |-> layerFlush(G, minTime)]

isLayerActive(G, layerId, peek) == layerGet(G, layerId, peek) = Bool(TRUE)

\* Ledger.get() for the pointer at peek
ledgerGet(L, G, peek) ==
    [id \in {i \in DOMAIN L : isLayerActive(G, i, peek)} |->
        getState(L[id], peek)]

\* the test of _autoFlush with >= in the place of >
autoFlushEarly(currentTime, lft, bs, tw) == currentTime - lft >= bs + tw

autoFlushDue(currentTime, lft, bs, tw) == currentTime - lft > bs + tw

\* no key of the log holds more than n commits
BoundedLog(history, n) == \A k \in DOMAIN history : Len(history[k]) <= n

\* no key of the ledger holds more than n commits
Bounded(L, G, n) ==
    /\ BoundedLog(G, n)
    /\ \A id \in DOMAIN L : BoundedLog(L[id], n)

\* Ledger.set from its step 3 on: ap is the ledger after the updates
\* were appended at the new time
setFlushed(ap, fl, time, fork, due, lft) ==
    [adv |-> TRUE, p |-> time, t |-> time,
     layers |-> fl.layers, genesis |-> fl.genesis,
     lastFlushTime |-> IF due THEN time ELSE lft,
     fork |-> fork, flushed |-> due,
     notifs |-> 1 + (IF fork THEN 1 ELSE 0) + (IF due THEN 1 ELSE 0),
     appended |-> ap]

setFinish(ap, time, fork, lft, bs, tw) ==
    IF autoFlushDue(time, lft, bs, tw)
    THEN setFlushed(ap, ledgerFlush(ap.layers, ap.genesis, time - bs),
                    time, fork, TRUE, lft)
    ELSE setFlushed(ap, ap, time, fork, FALSE, lft)

\* Ledger.set from its step 2 on: chk is the outcome of step 1
setPruned(u, pr, time, isFork, lft, bs, tw) ==
    setFinish(applyLoop(u, 1, pr.layers, pr.genesis, time),
              time, isFork, lft, bs, tw)

setTicked(u, chk, isFork, time, lft, bs, tw) ==
    IF isFork
    THEN setPruned(u, ledgerPrune(chk.layers, chk.genesis, time, time),
                   time, TRUE, lft, bs, tw)
    ELSE setPruned(u, [layers |-> chk.layers, genesis |-> chk.genesis],
                   time, FALSE, lft, bs, tw)

setAdvance(u, chk, cp, ct, lft, bs, tw) ==
    setTicked(u, chk, cp < ct, clockTick(cp, ct).p, lft, bs, tw)

setChecked(u, chk, cp, ct, lft, bs, tw) ==
    IF ~chk.meaningful
    THEN [adv |-> FALSE, p |-> cp, t |-> ct,
          layers |-> chk.layers, genesis |-> chk.genesis,
          lastFlushTime |-> lft, fork |-> FALSE, flushed |-> FALSE,
          notifs |-> 0,
          appended |-> [layers |-> chk.layers, genesis |-> chk.genesis]]
    ELSE setAdvance(u, chk, cp, ct, lft, bs, tw)

\* Ledger.set(u) on a ledger with the given fields: the fields it leaves
\* and what it did
ledgerSet(u, L, G, cp, ct, lft, bs, tw) ==
    setChecked(u, checkLoop(u, 1, L, G, cp), cp, ct, lft, bs, tw)

(***************************************************************************)
(* The inputs of the model.                                                *)
(***************************************************************************)
Entry(id, o) == [layerId |-> id, updates |-> o]

\* {ns: {x: v}}
SetX(ns, v) == <<Entry(ns, Obj("x" :> v))>>

\* {ns1: {x: v}, ns2: {x: w}}
SetBoth(ns1, v, ns2, w) ==
    <<Entry(ns1, Obj("x" :> v)), Entry(ns2, Obj("x" :> w))>>

(***************************************************************************)
(* Ledger: the API calls.                                                  *)
(***************************************************************************)
NoArg == <<>>

Call(op, arg, adv, fork, flushed, notifs) ==
    [op |-> op, u |-> arg, adv |-> adv, fork |-> fork, flushed |-> flushed,
     notifs |-> notifs, queued |-> microtasks, from |-> p]

\* every API call starts with room in the microtask queue
Ready == microtasks + 3 <= MaxPending

NoCalls == [cb \in Callbacks |-> 0]

\* the Layer used on its own was not called yet
NoAnswer == [op |-> "new"]

\* the snapshots recorded for the times up to n, with get() recorded for n
Recorded(n, snap) ==
    [m \in {k \in DOMAIN snapAt : k < n} \cup {n} |->
        IF m = n THEN snap ELSE snapAt[m]]

\* new Ledger({bufferSize: bs, toleranceWindow: tw})
NewLedger(bs, tw) ==
    /\ p = 0
    /\ t = 0
    /\ layers = EmptyMap
    /\ genesis = EmptyMap
    /\ bufferSize = bs
    /\ toleranceWindow = tw
    /\ lastFlushTime = 0
    /\ subscribers = {}
    /\ microtasks = 0
    /\ calls = NoCalls
    /\ last = Call("new", NoArg, FALSE, FALSE, FALSE, 0)
    /\ preSnap = EmptyMap
    /\ snapAt = EmptyMap

\* a new Ledger, and no Layer used on its own
InitWith(bs, tw) ==
    /\ NewLedger(bs, tw)
    /\ layer = EmptyMap
    /\ answer = NoAnswer

\* the call is observed: its outcome, the snapshot before it, no callback yet
Observed(call) ==
    /\ last' = call
    /\ preSnap' = ledgerGet(layers, genesis, p)
    /\ calls' = NoCalls

SetWithin(u, maxTime, maxCommits) ==
    /\ Ready
    /\ \E r \in {ledgerSet(u, layers, genesis, p, t, lastFlushTime,
                           bufferSize, toleranceWindow)} :
          /\ r.adv => p < maxTime
          /\ Bounded(r.appended.layers, r.appended.genesis, maxCommits)
          /\ p' = r.p
          /\ t' = r.t
          /\ layers' = r.layers
          /\ genesis' = r.genesis
          /\ lastFlushTime' = r.lastFlushTime
          /\ microtasks' = microtasks + r.notifs
          /\ Observed(Call("set", u, r.adv, r.fork, r.flushed, r.notifs))
          /\ snapAt' = IF r.adv
                       THEN Recorded(r.p, ledgerGet(r.layers, r.genesis, r.p))
                       ELSE snapAt
    /\ UNCHANGED <<config, subscribers, alone>>

Set(u) == SetWithin(u, MaxTime, MaxCommits)

Undo ==
    /\ Ready
    /\ p' = clockUndo(p, t).p
    /\ t' = clockUndo(p, t).t
    /\ microtasks' = microtasks + 1
    /\ Observed(Call("undo", NoArg, FALSE, FALSE, FALSE, 1))
    /\ UNCHANGED <<layers, genesis, lastFlushTime, config, subscribers, snapAt,
                 alone>>

Redo ==
    /\ Ready
    /\ p' = clockRedo(p, t).p
    /\ t' = clockRedo(p, t).t
    /\ microtasks' = microtasks + 1
    /\ Observed(Call("redo", NoArg, FALSE, FALSE, FALSE, 1))
    /\ UNCHANGED <<layers, genesis, lastFlushTime, config, subscribers, snapAt,
                 alone>>

RemoveWithin(layerId, maxTime, maxCommits) ==
    /\ Ready
    /\ p < maxTime
    /\ \E g \in {setSingleKey(genesis, layerId, Bool(FALSE),
                              clockTick(p, t).p)} :
          /\ BoundedLog(g, maxCommits)
          /\ p' = clockTick(p, t).p
          /\ t' = clockTick(p, t).t
          /\ genesis' = g
          /\ snapAt' = Recorded(p + 1, ledgerGet(layers, g, p + 1))
    /\ microtasks' = microtasks + 1
    /\ Observed(Call("remove", layerId, TRUE, p < t, FALSE, 1))
    /\ UNCHANGED <<layers, lastFlushTime, config, subscribers, alone>>

Remove(layerId) == RemoveWithin(layerId, MaxTime, MaxCommits)

Prune(minTime) ==
    /\ Ready
    /\ \E pr \in {ledgerPrune(layers, genesis, minTime, p)} :
          /\ layers' = pr.layers
          /\ genesis' = pr.genesis
    /\ microtasks' = microtasks + 1
    /\ Observed(Call("prune", minTime, FALSE, FALSE, FALSE, 1))
    /\ UNCHANGED <<p, t, lastFlushTime, config, subscribers, snapAt, alone>>

Flush ==
    /\ Ready
    /\ \E fl \in {ledgerFlush(layers, genesis, t - bufferSize)} :
          /\ layers' = fl.layers
          /\ genesis' = fl.genesis
    /\ lastFlushTime' = t
    /\ microtasks' = microtasks + 1
    /\ Observed(Call("flush", NoArg, FALSE, FALSE, TRUE, 1))
    /\ UNCHANGED <<p, t, config, subscribers, snapAt, alone>>

Subscribe(cb) ==
    /\ subscribers' = subscribers \cup {cb}
    /\ Observed(Call("subscribe", cb, FALSE, FALSE, FALSE, 0))
    /\ UNCHANGED <<core, config, microtasks, snapAt, alone>>

\* the function subscribe() returned is called
Unsubscribe(cb) ==
    /\ cb \in subscribers
    /\ subscribers' = subscribers \ {cb}
    /\ Observed(Call("unsubscribe", cb, FALSE, FALSE, FALSE, 0))
    /\ UNCHANGED <<core, config, microtasks, snapAt, alone>>

\* one queued microtask runs: subscribers.forEach(cb => cb())
RunMicrotask ==
    /\ microtasks > 0
    /\ microtasks' = microtasks - 1
    /\ calls' = [cb \in Callbacks |->
                   IF cb \in subscribers THEN calls[cb] + 1 ELSE calls[cb]]
    /\ UNCHANGED <<core, config, subscribers, last, preSnap, snapAt, alone>>

(***************************************************************************)
(* Helpers of the properties.                                              *)
(***************************************************************************)
\* this step is the API call op (a microtask only shrinks the queue)
IsCall(op) ==
    /\ last'.op = op
    /\ microtasks' >= microtasks
    /\ calls' = NoCalls
    /\ preSnap' = ledgerGet(layers, genesis, p)

\* the step changes nothing of the ledger and queues no notification
NothingChanged ==
    /\ p' = p
    /\ t' = t
    /\ layers' = layers
    /\ genesis' = genesis
    /\ lastFlushTime' = lastFlushTime
    /\ microtasks' = microtasks

\* the value visible for a key of a namespace with the pointer at peek
visible(L, layerId, key, peek) ==
    IF layerId \in DOMAIN L THEN layerGet(L[layerId], key, peek) ELSE Undef

\* every leaf of the update equals the value visible for its key
noLeafDiffers(u, L, peek) ==
    \A i \in 1..Len(u) :
        \A key \in DOMAIN flattenObject(u[i].updates, "") :
            valuesEqual(visible(L, u[i].layerId, key, peek),
                        flattenObject(u[i].updates, "")[key])

\* the commits of a log, each with its key and its position
logEntries(history) ==
    UNION {{<<k, i, history[k][i]>> : i \in 1..Len(history[k])} :
             k \in DOMAIN history}

\* the commits of the namespace logs, each with its place
entries(L) ==
    UNION {{<<id, e>> : e \in logEntries(L[id])} : id \in DOMAIN L}

\* a snapshot shows the same of a namespace as another one
SameView(s1, s2, id) ==
    /\ (id \in DOMAIN s1) = (id \in DOMAIN s2)
    /\ id \in DOMAIN s1 => s1[id] = s2[id]

(***************************************************************************)
(* The ledger under every API call.                                        *)
(***************************************************************************)
Init == InitWith(1, 0)

SetAny == \E u \in {SetX("a", Num(1)), SetX("a", Num(2)), SetX("b", Num(1))} :
              Set(u)

RemoveAny == \E id \in {"a"} : Remove(id)

PruneAny == \E m \in 1..MaxTime : Prune(m)

SubscribeAny == \E cb \in Callbacks : Subscribe(cb)

UnsubscribeAny == \E cb \in Callbacks : Unsubscribe(cb)

Next ==
    \/ SetAny
    \/ Undo
    \/ Redo
    \/ RemoveAny
    \/ PruneAny
    \/ Flush
    \/ RunMicrotask

Spec == Init /\ [][Next]_vars

(***************************************************************************)
(* Time travel: set, undo and redo with retention out of reach.            *)
(***************************************************************************)
TravelInit == InitWith(100, 20)

TravelUpdates ==
    {SetX("a", v) : v \in {Undef, Null, Num(1), Num(2)}}
      \cup {<<Entry("b", Obj(EmptyMap))>>,
            <<Entry("b", Obj("y" :> Obj("z" :> Num(1)))),
              Entry("a", Obj("x" :> Num(1)))>>}

TravelSet == \E u \in TravelUpdates : Set(u)

TravelNext == TravelSet \/ Undo \/ Redo \/ RunMicrotask

TravelSpec == TravelInit /\ [][TravelNext]_vars

(***************************************************************************)
(* Retention: a small buffer, so that automatic flushes happen.            *)
(***************************************************************************)
RetentionTime == 3
RetentionCommits == 3

RetentionInit == InitWith(2, 0)

RetentionUpdates ==
    {SetX("a", Num(1)), SetX("b", Num(1)), SetBoth("a", Num(2), "b", Num(2))}

RetentionSet ==
    \E u \in RetentionUpdates : SetWithin(u, RetentionTime, RetentionCommits)

RetentionNext == RetentionSet \/ Undo \/ Redo \/ Flush \/ RunMicrotask

RetentionSpec == RetentionInit /\ [][RetentionNext]_vars

(***************************************************************************)
(* Notification: subscribers come and go while the ledger is written.      *)
(***************************************************************************)
NotifyInit == InitWith(1, 0)

NotifySet == \E u \in {SetX("a", Num(1)), SetX("a", Num(2)),
                       SetBoth("a", Num(1), "b", Num(1))} : Set(u)

NotifyNext ==
    \/ NotifySet
    \/ Undo
    \/ SubscribeAny
    \/ UnsubscribeAny
    \/ RunMicrotask

NotifySpec == NotifyInit /\ [][NotifyNext]_vars

(***************************************************************************)
(* Stale history: a long history is undone and a namespace is removed.     *)
(***************************************************************************)
StaleTime == 4
StaleCommits == 6
StaleRemoves == 1

StaleInit == InitWith(100, 20)

StaleSet == \E v \in {Undef, Num(1), Num(2)} :
                SetWithin(SetX("a", v), StaleTime, StaleCommits)

StaleRemove == RemoveWithin("b", StaleTime, StaleRemoves)

StaleNext == StaleSet \/ Undo \/ StaleRemove \/ RunMicrotask

StaleSpec == StaleInit /\ [][StaleNext]_vars

(***************************************************************************)
(* Boundaries: the pointer is moved at and beyond the ends of the timeline. *)
(***************************************************************************)
BoundaryTime == 2
BoundaryCommits == 3

BoundaryInit == InitWith(100, 20)

BoundarySet == \E v \in {Num(1), Num(2)} :
                   SetWithin(SetX("a", v), BoundaryTime, BoundaryCommits)

BoundaryNext == BoundarySet \/ Undo \/ Redo \/ SubscribeAny \/ RunMicrotask

BoundarySpec == BoundaryInit /\ [][BoundaryNext]_vars

(***************************************************************************)
(* A Clock on its own: it is ticked, moved and reset, and no Ledger writes. *)
(***************************************************************************)
\* the Clock is not ticked beyond this time
ClockTime == 4

\* the arguments of resetTo: below zero, within the timeline and beyond it
ResetTimes == (0 - 2)..(ClockTime + 2)

\* the clock takes the fields c, and the call is observed
ClockCall(op, arg, c) ==
    /\ p' = c.p
    /\ t' = c.t
    /\ Observed(Call(op, arg, FALSE, FALSE, FALSE, 0))
    /\ UNCHANGED <<layers, genesis, lastFlushTime, config, subscribers,
                   microtasks, snapAt, alone>>

Tick ==
    /\ p < ClockTime
    /\ ClockCall("tick", NoArg, clockTick(p, t))

ClockUndo == ClockCall("clock.undo", NoArg, clockUndo(p, t))

ClockRedo == ClockCall("clock.redo", NoArg, clockRedo(p, t))

ResetTo(time) == ClockCall("resetTo", time, clockResetTo(p, t, time))

ResetToAny == \E time \in ResetTimes : ResetTo(time)

ClockInit == InitWith(100, 20)

ClockNext == Tick \/ ClockUndo \/ ClockRedo \/ ResetToAny

ClockSpec == ClockInit /\ [][ClockNext]_vars

(***************************************************************************)
(* A Layer on its own: histories sorted by timestamp are looked up and     *)
(* flushed.                                                                *)
(***************************************************************************)
\* key x starts with at most LayerLen commits
LayerLen == 3
\* the commits of the Layer have the timestamps 1..LayerStamp
LayerStamp == 3

LayerKeys == {"x", "y"}
LayerValues == {Undef, Null, Num(1)}
LayerTimes == 0..(LayerStamp + 1)

\* the commits are in the order of their timestamps
Sorted(commits) ==
    \A i \in 1..(Len(commits) - 1) : commits[i].t <= commits[i + 1].t

\* the histories of one key that Layer.set builds under a clock that only
\* advances
SortedHistories ==
    UNION {{h \in [1..n -> {CommitNode(time, v) : time \in 1..LayerStamp,
                                                 v \in LayerValues}] :
              Sorted(h)} : n \in 1..LayerLen}

\* the Ledger that stays as constructed while a Layer is used on its own
ledger == <<core, config, subscribers, microtasks, calls, last, preSnap, snapAt>>

\* key x holds a sorted history, key y one commit or none
LayerInit ==
    /\ NewLedger(100, 20)
    /\ \E h \in SortedHistories :
          \E o \in {EmptyMap} \cup {"y" :> <<CommitNode(1, v)>> :
                                     v \in LayerValues} :
              layer = ("x" :> h) @@ o
    /\ answer = NoAnswer

LayerGet(key, time) ==
    /\ answer' = [op |-> "get", key |-> key, time |-> time,
                  value |-> layerGet(layer, key, time)]
    /\ UNCHANGED <<layer, ledger>>

LayerGetState(time) ==
    /\ answer' = [op |-> "getState", time |-> time,
                  state |-> getState(layer, time)]
    /\ UNCHANGED <<layer, ledger>>

LayerFlush(thresholdTime) ==
    /\ layer' = layerFlush(layer, thresholdTime)
    /\ answer' = [op |-> "flush", time |-> thresholdTime]
    /\ UNCHANGED ledger

LayerGetAny == \E key \in LayerKeys : \E time \in LayerTimes : LayerGet(key, time)

LayerGetStateAny == \E time \in LayerTimes : LayerGetState(time)

LayerFlushAny == \E thresholdTime \in LayerTimes : LayerFlush(thresholdTime)

LayerNext == LayerGetAny \/ LayerGetStateAny \/ LayerFlushAny

LayerSpec == LayerInit /\ [][LayerNext]_vars

(***************************************************************************)
(* Disorder: a namespace is removed behind the maximum and the ledger is   *)
(* flushed by hand.                                                        *)
(***************************************************************************)
DisorderTime == 3
DisorderCommits == 4

DisorderInit == InitWith(1, 20)

DisorderSet == \E v \in {Num(1), Num(2)} :
                   SetWithin(SetX("a", v), DisorderTime, DisorderCommits)

DisorderRemove == RemoveWithin("a", DisorderTime, DisorderCommits)

DisorderNext == DisorderSet \/ Undo \/ DisorderRemove \/ Flush \/ RunMicrotask

DisorderSpec == DisorderInit /\ [][DisorderNext]_vars

(***************************************************************************)
(* Removal: namespaces are written and removed while the pointer travels.  *)
(***************************************************************************)
RemovalTime == 3
RemovalCommits == 4

RemovalInit == InitWith(1, 0)

RemovalSet == \E v \in {Num(1), Num(2)} :
                  SetWithin(SetX("a", v), RemovalTime, RemovalCommits)

RemovalRemove == RemoveWithin("a", RemovalTime, RemovalCommits)

RemovalNext == RemovalSet \/ Undo \/ Redo \/ RemovalRemove \/ RunMicrotask

RemovalSpec == RemovalInit /\ [][RemovalNext]_vars

(***************************************************************************)
(* Birth: namespaces come and go while the timeline is forked.             *)
(***************************************************************************)
BirthTime == 3
BirthCommits == 3

BirthInit == InitWith(100, 20)

BirthUpdates ==
    {SetX("a", Num(1)), SetX("a", Num(2)), SetX("b", Num(1)),
     <<Entry("b", Obj(EmptyMap))>>,
     <<Entry("a", Obj("x" :> Num(1))), Entry("b", Obj("x" :> Num(2)))>>}

BirthSet == \E u \in BirthUpdates : SetWithin(u, BirthTime, BirthCommits)

BirthNext == BirthSet \/ Undo \/ Redo \/ RunMicrotask

BirthSpec == BirthInit /\ [][BirthNext]_vars

(***************************************************************************)
(* Trigger: a buffer and a tolerance window that writes run into.          *)
(***************************************************************************)
TriggerTime == 4
TriggerCommits == 4

TriggerInit == InitWith(1, 1)

TriggerSet == \E u \in {SetX("a", Num(1)), SetX("a", Num(2)), SetX("b", Num(1))} :
                  SetWithin(u, TriggerTime, TriggerCommits)

TriggerNext == TriggerSet \/ Undo \/ RunMicrotask

TriggerSpec == TriggerInit /\ [][TriggerNext]_vars

(***************************************************************************)
(* Frame: the pointer travels over a timeline with writes and removals.    *)
(***************************************************************************)
FrameTime == 2
FrameCommits == 3

FrameInit == InitWith(1, 0)

FrameSet == \E v \in {Num(1), Num(2)} :
                SetWithin(SetX("a", v), FrameTime, FrameCommits)

FrameRemove == RemoveWithin("a", FrameTime, FrameCommits)

FrameNext == FrameSet \/ Undo \/ Redo \/ FrameRemove \/ RunMicrotask

FrameSpec == FrameInit /\ [][FrameNext]_vars

(***************************************************************************)
(* Properties.                                                             *)
(***************************************************************************)
\* C1: with the pointer at time n, get() is the snapshot recorded right
\* after the set that created time n, and it is empty at time 0
TimeTravelExact ==
    ledgerGet(layers, genesis, p) = (IF p = 0 THEN EmptyMap ELSE snapAt[p])

\* the set of this step was discarded: the clock did not advance and no
\* namespace log holds a commit it did not hold
Discarded ==
    /\ p' = p
    /\ t' = t
    /\ entries(layers') \subseteq entries(layers)

\* C2: a set is discarded if and only if every leaf of the update equals
\* the value visible for its key at the pointer
DiscardedIffUnchanged ==
    [][IsCall("set") => (Discarded <=> noLeafDiffers(last'.u, layers, p))]_vars

\* the snapshot holds the non-tombstone leaves of entry i of the update
Written(snap, u, i) ==
    /\ u[i].layerId \in DOMAIN snap
    /\ \A key \in DOMAIN flattenObject(u[i].updates, "") :
          flattenObject(u[i].updates, "")[key] # Undef
            => /\ key \in DOMAIN snap[u[i].layerId]
               /\ snap[u[i].layerId][key]
                    = flattenObject(u[i].updates, "")[key]

\* C3: right after a set that advanced the clock, get() holds every written
\* namespace and every non-tombstone leaf written
ReadYourWrites ==
    (last.op = "set" /\ last.adv)
      => \A i \in 1..Len(last.u) :
            Written(ledgerGet(layers, genesis, p), last.u, i)

\* C4: a set without a meaningful change leaves the ledger as it was and
\* queues no notification
NoOpSetIsPure ==
    [][(IsCall("set") /\ ~last'.adv) => NothingChanged]_vars

\* C5: a set repeated right after itself changes nothing and notifies nobody
DedupIdempotent ==
    [][(last.op = "set" /\ IsCall("set") /\ last'.u = last.u)
          => NothingChanged]_vars

\* C6: a set of two namespaces is one tick, and one undo right after it
\* shows every touched namespace as it was before the set
AtomicTransaction ==
    [][/\ (IsCall("set") /\ last'.adv /\ Len(last'.u) >= 2)
            => (p' = p + 1 /\ t' = p + 1)
       /\ (last.op = "set" /\ last.adv /\ Len(last.u) >= 2 /\ IsCall("undo"))
            => \A i \in 1..Len(last.u) :
                  SameView(ledgerGet(layers', genesis', p'), preSnap,
                           last.u[i].layerId)]_vars

\* C7: once the microtasks of a set that advanced the clock have run, every
\* subscriber was called exactly once
OneNotification ==
    (last.op = "set" /\ last.adv /\ last.queued = 0 /\ microtasks = 0)
      => \A cb \in subscribers : calls[cb] = 1

\* the commit entry e of namespace id was written by the update u at time
WrittenBy(u, time, id, e) ==
    \E i \in 1..Len(u) :
        /\ u[i].layerId = id
        /\ e[1] \in DOMAIN flattenObject(u[i].updates, "")
        /\ e[3] = CommitNode(time, flattenObject(u[i].updates, "")[e[1]])

\* C8: a set with the pointer behind the maximum writes at p + 1, leaves no
\* commit of the abandoned branch, and a redo after it changes nothing
BranchTruncation ==
    [][/\ (IsCall("set") /\ last'.adv /\ p < t)
            => /\ p' = p + 1
               /\ t' = p + 1
               /\ \A x \in entries(layers') :
                     x[2][3].t <= p \/ WrittenBy(last'.u, p + 1, x[1], x[2])
               /\ \A e \in logEntries(genesis') :
                     \/ e[3].t <= p
                     \/ /\ e[3] = CommitNode(p + 1, Bool(TRUE))
                        /\ \E i \in 1..Len(last'.u) : last'.u[i].layerId = e[1]
       /\ (last.op = "set" /\ last.adv /\ last.fork /\ IsCall("redo"))
            => /\ p' = p
               /\ ledgerGet(layers', genesis', p')
                    = ledgerGet(layers, genesis, p)]_vars

\* C9: no two adjacent commits of a key hold structurally equal values
NoAdjacentEqual ==
    \A id \in DOMAIN layers : \A k \in DOMAIN layers[id] :
        \A i \in 1..(Len(layers[id][k]) - 1) :
            ~valuesEqual(layers[id][k][i].v, layers[id][k][i + 1].v)

\* the times of the retained span when the maximum is n
Window(n) == {m \in 0..n : m >= n - bufferSize}

\* the ledger of this set step right before its flush
BeforeFlush ==
    ledgerSet(last'.u, layers, genesis, p, t, lastFlushTime,
              bufferSize, toleranceWindow).appended

\* C10: a flush, automatic or manual, changes get() at no time of the
\* retained span
RetentionWindow ==
    [][/\ IsCall("flush")
            => \A m \in Window(t) :
                  ledgerGet(layers', genesis', m) = ledgerGet(layers, genesis, m)
       /\ (IsCall("set") /\ last'.flushed)
            => \A m \in Window(t') :
                  ledgerGet(layers', genesis', m)
                    = ledgerGet(BeforeFlush.layers, BeforeFlush.genesis, m)]_vars

\* C11: Layer.flush leaves every key whose commits all lie above the
\* threshold with exactly the commits it had
FlushFrame ==
    [][answer'.op = "flush"
         => \A k \in DOMAIN layer :
               (\A i \in 1..Len(layer[k]) : layer[k][i].t > answer'.time)
                 => (k \in DOMAIN layer' /\ layer'[k] = layer[k])]_vars

\* the commits of a history whose timestamp is above the threshold
Later(commits, thresholdTime) ==
    SelectSeq(commits, LAMBDA c : c.t > thresholdTime)

\* what a flush at the threshold owes to key k, which had a commit before
\* the threshold: one commit at or before the threshold, stamped with the
\* threshold, the later commits as they were, and the same value of k in
\* getState at every time from the threshold on
Continuous(before, after, k, thresholdTime, times) ==
    /\ k \in DOMAIN after
    /\ Cardinality({i \in 1..Len(after[k]) : after[k][i].t <= thresholdTime}) = 1
    /\ \A i \in 1..Len(after[k]) :
          after[k][i].t <= thresholdTime => after[k][i].t = thresholdTime
    /\ Later(after[k], thresholdTime) = Later(before[k], thresholdTime)
    /\ \A m \in times :
          m >= thresholdTime
            => layerGet(after, k, m) = layerGet(before, k, m)

Continuity(before, after, thresholdTime, times) ==
    \A k \in DOMAIN before :
        (\E i \in 1..Len(before[k]) : before[k][i].t < thresholdTime)
          => Continuous(before, after, k, thresholdTime, times)

\* C12: after a flush, every key that had a commit before the threshold
\* keeps exactly one commit at or before the threshold, stamped with the
\* threshold, keeps its later commits, and reads the same from the
\* threshold on
RetentionContinuity ==
    [][/\ answer'.op = "flush"
            => Continuity(layer, layer', answer'.time, LayerTimes)
       /\ IsCall("flush")
            => /\ Continuity(genesis, genesis', t - bufferSize, 0..(t + 1))
               /\ \A id \in DOMAIN layers :
                     Continuity(layers[id], layers'[id], t - bufferSize,
                                0..(t + 1))]_vars

\* C13: no key of a namespace log or of genesis holds more than
\* 2 * bufferSize + toleranceWindow + 1 commits
MemoryBound ==
    Bounded(layers, genesis, 2 * bufferSize + toleranceWindow + 1)

\* the positions of the commits of a key with timestamp <= time
UpTo(history, key, time) ==
    IF key \in DOMAIN history
    THEN {i \in 1..Len(history[key]) : history[key][i].t <= time}
    ELSE {}

\* the value of the latest commit of the key with timestamp <= time, and
\* undefined (absent) when there is none
LatestUpTo(history, key, time) ==
    IF UpTo(history, key, time) = {} THEN Undef
    ELSE history[key][CHOOSE i \in UpTo(history, key, time) :
                         \A j \in UpTo(history, key, time) : j <= i].v

\* C14: on histories sorted by timestamp, get(key, m) is the value of the
\* latest commit with timestamp <= m, absent when there is none or it is a
\* tombstone, and getState(m) holds exactly the keys whose value is not
\* absent
PointInTime ==
    (\A k \in DOMAIN layer : Sorted(layer[k]))
      => /\ answer.op = "get"
              => answer.value = LatestUpTo(layer, answer.key, answer.time)
         /\ answer.op = "getState"
              => /\ DOMAIN answer.state
                      = {k \in DOMAIN layer :
                           LatestUpTo(layer, k, answer.time) # Undef}
                 /\ \A k \in DOMAIN answer.state :
                       answer.state[k] = LatestUpTo(layer, k, answer.time)

\* a lookup between the commits of a key with three commits found a value
PointInTimeSeen ==
    /\ answer.op = "get"
    /\ answer.key \in DOMAIN layer
    /\ Len(layer[answer.key]) = 3
    /\ layer[answer.key][2].t = answer.time
    /\ layer[answer.key][3].t > answer.time
    /\ layer[answer.key][1].t < answer.time
    /\ answer.value = Num(1)
    /\ layer[answer.key][3].v = Undef

\* C15: remove(ns) is one tick after which get() does not hold ns, and an
\* undo right after it shows ns as it was before the remove
RemoveHides ==
    [][/\ IsCall("remove")
            => /\ p' = p + 1
               /\ t' = p + 1
               /\ last'.u \notin DOMAIN ledgerGet(layers', genesis', p')
       /\ (last.op = "remove" /\ IsCall("undo"))
            => SameView(ledgerGet(layers', genesis', p'), preSnap, last.u)]_vars

\* every key of the log has commits with strictly increasing timestamps
Increasing(history) ==
    \A k \in DOMAIN history :
        \A i \in 1..(Len(history[k]) - 1) : history[k][i].t < history[k][i + 1].t

\* C16: every key history of every namespace log and of genesis has
\* strictly increasing timestamps
StrictlyIncreasing ==
    /\ Increasing(genesis)
    /\ \A id \in DOMAIN layers : Increasing(layers[id])

\* C20: no commit of a namespace log or of genesis has a timestamp above
\* the maximum of the clock
NoFutureCommit ==
    /\ \A e \in logEntries(genesis) : e[3].t <= t
    /\ \A x \in entries(layers) : x[2][3].t <= t

\* C17: the pointer is never below zero and never beyond the maximum
ClockInvariant == 0 <= p /\ p <= t

\* resetTo has jumped back over more than one time
ClockInvariantSeen ==
    /\ last.op = "resetTo"
    /\ last.u = p
    /\ last.from > p + 1
    /\ last.from <= t

\* C19: resetTo(time) moves the pointer to time when 0 <= time <= t, leaves
\* it where it is otherwise, and never changes the maximum
ResetToInRange ==
    [][IsCall("resetTo")
         => /\ p' = (IF 0 <= last'.u /\ last'.u <= t THEN last'.u ELSE p)
            /\ t' = t]_vars

\* a resetTo beyond the maximum was ignored with the pointer inside the
\* timeline
ResetToIgnored ==
    /\ last.op = "resetTo"
    /\ last.u > t
    /\ last.from = p
    /\ 0 < p
    /\ p < t

\* C18: undo at time 0 and redo at the maximum leave the pointer and the
\* snapshot they return as they were, and queue exactly one notification
BoundaryNoOp ==
    [][((IsCall("undo") /\ p = 0) \/ (IsCall("redo") /\ p = t))
         => /\ p' = p
            /\ t' = t
            /\ ledgerGet(layers', genesis', p') = ledgerGet(layers, genesis, p)
            /\ microtasks' = microtasks + 1]_vars

\* redo was called at the maximum of a timeline that holds a value, with a
\* subscriber listening
BoundaryNoOpSeen ==
    /\ last.op = "redo"
    /\ last.from = t
    /\ t >= 1
    /\ p = t
    /\ ledgerGet(layers, genesis, p) # EmptyMap
    /\ subscribers # {}
    /\ microtasks = last.queued + 1

\* the namespace was born at time n: its last genesis commit marks it alive
\* at n, and get() holds it with the pointer at n and at no earlier pointer
BornAt(L, G, id, n) ==
    /\ id \in DOMAIN G
    /\ G[id][Len(G[id])] = CommitNode(n, Bool(TRUE))
    /\ id \in DOMAIN ledgerGet(L, G, n)
    /\ \A m \in 0..(n - 1) : id \notin DOMAIN ledgerGet(L, G, m)

\* C21: a set that advances the clock to n and writes a namespace that had
\* no log gives it the birth time n
NamespaceBirth ==
    [][(IsCall("set") /\ last'.adv)
         => \A i \in 1..Len(last'.u) :
               last'.u[i].layerId \notin DOMAIN layers
                 => BornAt(layers', genesis', last'.u[i].layerId, p')]_vars

\* what the retention step of a set owes when the new time is n: ap is the
\* ledger with the updates appended
Retained(ap, n) ==
    IF n - lastFlushTime > bufferSize + toleranceWindow
    THEN /\ layers' = [id \in DOMAIN ap.layers |->
                          layerFlush(ap.layers[id], n - bufferSize)]
         /\ genesis' = layerFlush(ap.genesis, n - bufferSize)
         /\ lastFlushTime' = n
         /\ last'.flushed
    ELSE /\ layers' = ap.layers
         /\ genesis' = ap.genesis
         /\ lastFlushTime' = lastFlushTime
         /\ ~last'.flushed

\* C22: a set that advances the clock to n flushes every namespace log and
\* genesis at n - bufferSize and sets lastFlushTime to n exactly when
\* n - lastFlushTime > bufferSize + toleranceWindow, and otherwise leaves
\* lastFlushTime and the commits as they are
AutoFlushTrigger ==
    [][(IsCall("set") /\ last'.adv) => Retained(BeforeFlush, p')]_vars

\* a set has flushed at a threshold of 2 or more and a commit carries the
\* threshold
AutoFlushSeen ==
    /\ last.op = "set"
    /\ last.flushed
    /\ lastFlushTime = p
    /\ p - bufferSize >= 2
    /\ \E x \in entries(layers) : x[2][3].t = p - bufferSize
    /\ \A x \in entries(layers) : x[2][3].t >= p - bufferSize

\* C23: every namespace that genesis marks alive at the pointer has a log
\* in the namespace map, so that get(ids) finds a log for every id it reads
AliveHasLog ==
    \A id \in DOMAIN genesis :
        isLayerActive(genesis, id, p) => id \in DOMAIN layers

\* C24: undo and redo leave the maximum, the namespaces, every commit and
\* lastFlushTime as they were, and a redo right after an undo taken at
\* p > 0 is back at the pointer and the snapshot from before the undo
PointerOnly ==
    [][/\ (IsCall("undo") \/ IsCall("redo"))
            => /\ t' = t
               /\ layers' = layers
               /\ genesis' = genesis
               /\ lastFlushTime' = lastFlushTime
       /\ (last.op = "undo" /\ last.from > 0 /\ IsCall("redo"))
            => /\ p' = last.from
               /\ ledgerGet(layers', genesis', p') = preSnap]_vars

\* undo has moved the pointer back from a time whose snapshot differs, over
\* a timeline that holds commits
PointerOnlySeen ==
    /\ last.op = "undo"
    /\ last.from = p + 1
    /\ t > p
    /\ entries(layers) # {}
    /\ preSnap # ledgerGet(layers, genesis, p)

====
